---- MODULE Spec2Model ----
(***************************************************************************)
(* Plagiarism service of the assignment system: the recompute run          *)
(* (run_plagiarism_check), the comparison engine (plagiarism_service.py),  *)
(* the plagiarism_matches table and its readers, together with the         *)
(* submission service's submit_assignment, which creates and replaces the  *)
(* submissions a run reads.                                                *)
(*                                                                         *)
(* The database is PostgreSQL through SQLAlchemy sessions with             *)
(* autocommit=False and no isolation_level, i.e. READ COMMITTED: every     *)
(* statement sees the rows committed when it starts plus the writes of its *)
(* own transaction; a DELETE waits for a row another open transaction has  *)
(* deleted and skips it once that transaction has committed.               *)
(***************************************************************************)
EXTENDS Integers, Sequences, FiniteSets, TLC

\* ------------------------------------------------------------------ bounds

\* Number of background recompute tasks the model lets run (each once).
MaxRuns == 2

Runs == 1..MaxRuns

\* ------------------------------------------------------- the fixed universe

\* Assignment 1 is the one whose submissions come and go; assignment 3 is
\* another assignment of the same database, with two submissions.
Assignments == {1, 3}

\* The submissions of the model.  A submission id is a UUID, abbreviated to
\* its first two hex digits (0..255): 9 and 10 are 0x09 and 0x0a, whose strings
\* "09" and "0a" differ in a digit against a letter.  Students Y and Z have
\* submitted (10 and 26); student X submits twice (9 and 161), possibly from
\* two requests at once.  Students V and W have submitted to assignment 3
\* (50 and 51).
SubIds == {9, 10, 26, 50, 51, 161}

assignment_id(s) == IF s \in {50, 51} THEN 3 ELSE 1

student_id(s) ==
    CASE s = 10 -> "Y" [] s = 26 -> "Z" [] s = 50 -> "V" [] s = 51 -> "W"
      [] OTHER -> "X"

\* submission.files of each submission: a list of file ids; the file path is
\* submissions/<submission id>/<name>, one per file, so a file id names it.
SubmissionFiles(s) ==
    CASE s = 9 -> <<"f1">> [] s = 10 -> <<"f2">> [] s = 26 -> <<"f3">>
      [] s = 50 -> <<"f6">> [] s = 51 -> <<"f7">>
      [] OTHER -> <<"f4", "f5">>

\* The files of the submissions of assignment 1 ...
FileNames == {"f1", "f2", "f3", "f4", "f5"}

\* ... and of assignment 3.
OtherFileNames == {"f6", "f7"}

\* A text: the length in characters of the text as extracted (len) and the
\* term frequencies of tokenize(preprocess_text(text)) (tf).  The words a..d
\* stand for the, quick, brown, fox and e..h for completely, different,
\* content, here.
Words == {"a", "b", "c", "d", "e", "f", "g", "h"}

Tf(a, b, c, d) ==
    [w \in Words |-> CASE w = "a" -> a [] w = "b" -> b [] w = "c" -> c
                       [] w = "d" -> d [] OTHER -> 0]

\* n times each of the words e..h
TfOther(n) == [w \in Words |-> IF w \in {"e", "f", "g", "h"} THEN n ELSE 0]

EmptyText == [len |-> 0, tf |-> Tf(0, 0, 0, 0)]

\* f1 and f2 share one word out of 151 (cosine 1/22501, which rounds to 0.00);
\* f3 and f4 are the same text (100.00) and score 0.60 against f1 and f2; f5 is
\* shorter than 50 characters; f6 and f7 score 70.00.
FileText(f) ==
    CASE f = "f1" -> [len |-> 950, tf |-> Tf(1, 0, 150, 0)]
      [] f = "f2" -> [len |-> 900, tf |-> Tf(1, 0, 0, 150)]
      [] f = "f3" -> [len |-> 60, tf |-> Tf(2, 1, 0, 0)]
      [] f = "f4" -> [len |-> 60, tf |-> Tf(2, 1, 0, 0)]
      [] f = "f6" -> [len |-> 55, tf |-> Tf(14, 0, 0, 0)]
      [] f = "f7" -> [len |-> 79, tf |-> Tf(7, 7, 1, 1)]
      [] OTHER    -> [len |-> 19, tf |-> Tf(1, 1, 1, 1)]

\* A file on disk: its extension, whether reading it works ("ok"), raises
\* ("corrupt": the parser or the read fails), lacks the parser library
\* ("nolib") or meets bytes that are no UTF-8 ("undecodable"), and the text a
\* working extraction returns.
Doc(ext, state, text) == [ext |-> ext, state |-> state, text |-> text]

\* len(w) of the words: the, quick, brown, fox, completely, different,
\* content, here.
WordLen(w) ==
    CASE w \in {"a", "d"} -> 3 [] w \in {"b", "c"} -> 5 [] w = "e" -> 10
      [] w = "f" -> 9 [] w = "g" -> 7 [] OTHER -> 4

RECURSIVE Chars(_, _)
\* the characters of the occurrences of the words of S, a space after each
Chars(tf, S) ==
    IF S = {} THEN 0
    ELSE LET w == CHOOSE y \in S : TRUE
         IN tf[w] * (WordLen(w) + 1) + Chars(tf, S \ {w})

\* len(preprocess_text(text)): the words of the text joined by single spaces.
NormLen(text) == IF Chars(text.tf, Words) = 0 THEN 0 ELSE Chars(text.tf, Words) - 1

\* "the quick brown fox" and "completely different content here", and the
\* same sentences three and two times over (59 and 67 characters).
Fox == [len |-> 19, tf |-> Tf(1, 1, 1, 1)]

Other == [len |-> 33, tf |-> TfOther(1)]

Fox3 == [len |-> 59, tf |-> Tf(3, 3, 3, 3)]

Other2 == [len |-> 67, tf |-> TfOther(2)]

\* Texts of at least 50 characters after preprocessing whose cosines are
\* 0.70 (P, Q70), 0.50 (P, Q50) and 0.80 (Q70, Q50).
P == [len |-> 55, tf |-> Tf(14, 0, 0, 0)]

Q70 == [len |-> 79, tf |-> Tf(7, 7, 1, 1)]

Q50 == [len |-> 79, tf |-> Tf(4, 4, 4, 4)]

\* "the the quick" among punctuation and blank lines: 60 characters as
\* extracted, 13 after preprocessing.
Padded == [len |-> 60, tf |-> Tf(2, 1, 0, 0)]

Files5(d1, d2, d3, d4, d5) ==
    [f \in FileNames |-> CASE f = "f1" -> d1 [] f = "f2" -> d2 [] f = "f3" -> d3
                           [] f = "f4" -> d4 [] OTHER -> d5]

\* The upload directories of the model: the files of Init; the scenario of
\* three short texts; the same with long texts; texts scoring 50, 70 and 80;
\* and two directories of damaged files.
Corpora ==
    { [f \in FileNames |-> Doc("txt", "ok", FileText(f))],
      Files5(Doc("txt", "ok", Fox), Doc("txt", "ok", Fox), Doc("txt", "ok", Other),
             Doc("txt", "ok", Padded), Doc("txt", "ok", Padded)),
      Files5(Doc("txt", "ok", Fox3), Doc("txt", "ok", Fox3), Doc("txt", "ok", Other2),
             Doc("txt", "ok", Fox3), Doc("txt", "ok", P)),
      Files5(Doc("txt", "ok", P), Doc("txt", "ok", Q70), Doc("txt", "ok", Q50),
             Doc("txt", "ok", P), Doc("txt", "ok", Padded)),
      Files5(Doc("pdf", "corrupt", Fox3), Doc("txt", "ok", Fox3), Doc("docx", "ok", Fox3),
             Doc("bin", "undecodable", Fox3), Doc("xlsx", "nolib", Fox3)),
      Files5(Doc("txt", "corrupt", Fox3), Doc("docx", "corrupt", Fox3),
             Doc("pdf", "nolib", Fox3), Doc("xls", "ok", Fox3),
             Doc("txt", "undecodable", Fox3)) }

\* ------------------------------------------------------------- UUID strings

\* str(uuid): lowercase hex, here the two characters as their ASCII codes.
HexChar(d) == IF d < 10 THEN 48 + d ELSE 87 + d

IdStr(id) == <<HexChar(id \div 16), HexChar(id % 16)>>

HexVal(c) == IF c < 58 THEN c - 48 ELSE c - 87

\* UUID(string)
UUID(str) == 16 * HexVal(str[1]) + HexVal(str[2])

\* Python's s > t on two strings of the same length: lexicographic by code.
StrGreater(s, t) == s[1] > t[1] \/ (s[1] = t[1] /\ s[2] > t[2])

\* ------------------------------------------------------ the comparison engine

\* Scores are Decimals with two places, held as hundredths: 0..10000.
MinTextLen == 50

VARIABLE content     \* upload directory: the file (document) saved under each name

\* The parsers returning what they read so far when they fail.
extract_with_parserPartial(doc) == doc.text

\* extract_text_from_pdf, _docx, _xlsx: "" when the library is missing or the
\* parser raises.
extract_with_parser(doc) ==
    IF doc.state \in {"nolib", "corrupt"} THEN EmptyText ELSE doc.text

\* open(file_path, 'r', encoding='utf-8', errors='ignore').read(): bytes that
\* do not decode are left out of the text; "" when open or read raises.
read_as_text(doc) == IF doc.state = "corrupt" THEN EmptyText ELSE doc.text

extract_text_from_file(f, disk) ==
    IF f \notin disk THEN EmptyText
    ELSE IF content[f].ext \in {"pdf", "docx", "doc", "xlsx", "xls"}
         THEN extract_with_parser(content[f])
         ELSE read_as_text(content[f])

RECURSIVE ISqrtIn(_, _, _)
\* the largest k in lo..hi with k * k <= n
ISqrtIn(n, lo, hi) ==
    IF lo >= hi THEN lo
    ELSE LET mid == (lo + hi + 1) \div 2
         IN IF mid * mid <= n THEN ISqrtIn(n, mid, hi) ELSE ISqrtIn(n, lo, mid - 1)

Dot(u, v) ==
    u["a"] * v["a"] + u["b"] * v["b"] + u["c"] * v["c"] + u["d"] * v["d"]
    + u["e"] * v["e"] + u["f"] * v["f"] + u["g"] * v["g"] + u["h"] * v["h"]

RECURSIVE MulDiv(_, _, _)
\* <<q, r>> with a * b = q * n + r and 0 <= r < n, by halving b, so that no
\* intermediate value exceeds 32 bits (n < 2^30).
MulDiv(a, b, n) ==
    IF b = 0 THEN <<0, 0>>
    ELSE LET h  == MulDiv(a, b \div 2, n)
             q2 == 2 * h[1] + (IF 2 * h[2] >= n THEN 1 ELSE 0)
             r2 == IF 2 * h[2] >= n THEN 2 * h[2] - n ELSE 2 * h[2]
             r3 == r2 + (IF b % 2 = 1 THEN a % n ELSE 0)
             q3 == q2 + (IF b % 2 = 1 THEN a \div n ELSE 0)
         IN IF r3 >= n THEN <<q3 + 1, r3 - n>> ELSE <<q3, r3>>

\* round(dot / (sqrt(n1) * sqrt(n2)) * 100, 2) in hundredths: the largest S with
\* (2S - 1)^2 * n1 * n2 <= (20000 * dot)^2.
calculate_cosine_similarity(t1, t2) ==
    LET dot == Dot(t1.tf, t2.tf)
        nn  == Dot(t1.tf, t1.tf) * Dot(t2.tf, t2.tf)
    IN IF Dot(t1.tf, t1.tf) = 0 \/ Dot(t2.tf, t2.tf) = 0 THEN 0
       ELSE (ISqrtIn(MulDiv(400000000, dot * dot, nn)[1], 0, 20000) + 1) \div 2

\* compare_submissions without the test of the lengths.
compare_submissionsNoGuard(f1, f2, disk) ==
    calculate_cosine_similarity(extract_text_from_file(f1, disk),
                                extract_text_from_file(f2, disk))

\* compare_submissions testing the length of the first text only.
compare_submissionsFirstOnly(f1, f2, disk) ==
    LET text1 == extract_text_from_file(f1, disk)
        text2 == extract_text_from_file(f2, disk)
    IN IF text1.len < MinTextLen THEN 0
       ELSE calculate_cosine_similarity(text1, text2)

compare_submissions(f1, f2, disk) ==
    LET text1 == extract_text_from_file(f1, disk)
        text2 == extract_text_from_file(f2, disk)
    IN IF text1.len < MinTextLen \/ text2.len < MinTextLen THEN 0
       ELSE calculate_cosine_similarity(text1, text2)

RECURSIVE MaxOver(_, _)
\* the running maximum of the loop: max_similarity after the pairs of ps
MaxOver(ps, acc) ==
    IF ps = {} THEN acc
    ELSE LET p == CHOOSE x \in ps : TRUE
         IN MaxOver(ps \ {p}, IF p > acc THEN p ELSE acc)

\* Lines 251-260 returning the average of the file pairs' scores.
compare_all_files_in_submissionsAverage(files1, files2, disk) ==
    LET n == Len(files1) * Len(files2)
        score(k) == compare_submissions(files1[((k - 1) \div Len(files2)) + 1],
                                        files2[((k - 1) % Len(files2)) + 1], disk)
        RECURSIVE sum(_)
        sum(k) == IF k = 0 THEN 0 ELSE score(k) + sum(k - 1)
    IN IF n = 0 THEN 0 ELSE sum(n) \div n

compare_all_files_in_submissions(files1, files2, disk) ==
    MaxOver({compare_submissions(files1[i], files2[j], disk) :
                 i \in 1..Len(files1), j \in 1..Len(files2)}, 0)

\* Lines 286-297 with the same-student test left out.
IncludedSameStudent(student1_id, student2_id, files1, files2, similarity) ==
    /\ files1 # <<>> /\ files2 # <<>>
    /\ similarity > 0

\* Lines 286-297 with >= 0 for > 0.
IncludedZero(student1_id, student2_id, files1, files2, similarity) ==
    /\ student1_id # student2_id
    /\ files1 # <<>> /\ files2 # <<>>
    /\ similarity >= 0

\* Lines 286-297: the pair is neither skipped (same student, no files) nor
\* dropped (similarity 0).
Included(student1_id, student2_id, files1, files2, similarity) ==
    /\ student1_id # student2_id
    /\ files1 # <<>> /\ files2 # <<>>
    /\ similarity > 0

\* submission_data: a list of <<submission id string, student id, files>>.
\* The loops with the inner one starting at i instead of i + 1.
IndexPairsFromSelf(n) == {q \in (1..n) \X (1..n) : q[1] <= q[2]}

\* Lines 280-281: for i in range(n), for j in range(i + 1, n).
IndexPairs(n) == {q \in (1..n) \X (1..n) : q[1] < q[2]}

\* The result list as the set of its tuples <<sub1_id, sub2_id, similarity>>,
\* sub1 the entry listed first.
compare_all_submissions(submission_data, disk) ==
    LET n == Len(submission_data)
        sim(i, j) == compare_all_files_in_submissions(
                         submission_data[i][3], submission_data[j][3], disk)
    IN { <<submission_data[p[1]][1], submission_data[p[2]][1], sim(p[1], p[2])>> :
           p \in { q \in IndexPairs(n) :
                     Included(submission_data[q[1]][2], submission_data[q[2]][2],
                              submission_data[q[1]][3], submission_data[q[2]][3],
                              sim(q[1], q[2])) } }

\* ------------------------------------------------------------------ state

VARIABLES
    subs,            \* submissions table: the ids of the committed rows
    spc,             \* per submission: the position of the submit_assignment that creates it
    matches,         \* plagiarism_matches table: the committed rows
    pc,              \* per run: the position of run_plagiarism_check
    ra,              \* per run: its assignment_id argument
    readSubs,        \* per run: the submissions its query returned (a local)
    submission_data, \* per run: the local submission_data
    results,         \* per run: the local results
    targets,         \* per run: the rows its DELETE statement saw when it started
    del,             \* per run: the rows its open transaction has deleted
    upstreamDown,    \* per run: the file store was unreachable while it read files
    supersededBy,    \* per run: the later run that found other submissions while it runs
    resp,            \* per run: the status the trigger request that scheduled it returned
    call,            \* a call of compare_all_files_in_submissions: arguments and result
    report,          \* the last response of get_plagiarism_report
    lookup,          \* a request to get_submission_plagiarism_matches: position and response
    gw,              \* a request at the API gateway and where it was forwarded
    norm,            \* a call of preprocess_text: argument and result
    pdf,             \* a call of extract_text_from_pdf: the pages and the result
    triggered,       \* per submission: the trigger tasks its submit_assignment added
    enabled          \* per assignment: the column enable_plagiarism_check

vars == <<subs, spc, matches, pc, ra, readSubs, submission_data, results,
          targets, del, upstreamDown, supersededBy, content, resp, call, report,
          lookup, gw, norm, pdf, triggered, enabled>>

\* No call of compare_all_files_in_submissions is under way.
NoCall == [files1 |-> <<>>, files2 |-> <<>>, similarity |-> -1]

\* What run_plagiarism_check and submit_assignment leave alone.
\* No request for the report has been answered.
NoReport == [status |-> 0]

\* No request to get_submission_plagiarism_matches is under way, none is at
\* the gateway, and preprocess_text and extract_text_from_pdf are not called.
NoLookup == [status |-> 0]

NoRequest == [method |-> "", path |-> <<>>, forwarded |-> "none"]

NoNorm == [text |-> <<>>, result |-> <<"?">>]

NoPdf == [pages |-> <<>>, result |-> <<"?">>]

\* The requests and calls outside the recompute.
pureVars == <<lookup, gw, norm, pdf>>

\* What submit_assignment reads and writes besides the submissions.
submitVars == <<triggered, enabled>>

envVars == <<content, resp, call, report, pureVars, submitVars>>

runVars == <<pc, ra, readSubs, submission_data, results, targets, del, upstreamDown,
             supersededBy>>

Range(seq) == {seq[i] : i \in 1..Len(seq)}

\* The statements of a run without the filter on assignment_id.
StoredOfAny(a) == matches

\* The rows of plagiarism_matches of one assignment, as one statement of a
\* reader or of a run sees them.
Stored(a) == {m \in matches : m.assignment_id = a}

\* submission.files: the submission_files rows of a submission (committed with
\* the second commit of submit_assignment, deleted with the submission).
Files(s) == IF s \in subs /\ spc[s] = "filed" THEN SubmissionFiles(s) ELSE <<>>

\* The files file_path.exists() / os.path.exists() finds, the upload directory
\* (the file store) being reachable (up) or not: the saved files, or none.
Disk(up) ==
    IF up
    THEN UNION {Range(SubmissionFiles(s)) : s \in {t \in SubIds : spc[t] = "filed"}}
    ELSE {}

\* ON DELETE CASCADE of submission1_id / submission2_id
Referencing(s) == {m \in matches : m.submission1_id = s \/ m.submission2_id = s}

\* Some other open transaction holds the lock of a deleted row among rows.
Locked(rows, r) == \E q \in Runs \ {r} : pc[q] = "deleted" /\ del[q] \cap rows # {}

\* The database after students Y and Z have submitted and a first recompute
\* (run 0) has stored their match; student X has not submitted yet.
Init ==
    /\ subs = {10, 26, 50, 51}
    /\ spc = [s \in SubIds |-> IF s \in {10, 26, 50, 51} THEN "filed" ELSE "new"]
    /\ matches = {[assignment_id |-> 1, submission1_id |-> 10, submission2_id |-> 26,
                   similarity_score |-> 60, run |-> 0],
                  [assignment_id |-> 3, submission1_id |-> 50, submission2_id |-> 51,
                   similarity_score |-> 7000, run |-> 0]}
    /\ pc = [r \in Runs |-> "idle"]
    /\ ra = [r \in Runs |-> 1]
    /\ readSubs = [r \in Runs |-> {}]
    /\ submission_data = [r \in Runs |-> <<>>]
    /\ results = [r \in Runs |-> {}]
    /\ targets = [r \in Runs |-> {}]
    /\ del = [r \in Runs |-> {}]
    /\ upstreamDown = [r \in Runs |-> FALSE]
    /\ supersededBy = [r \in Runs |-> 0]
    /\ content = [f \in FileNames \cup OtherFileNames |-> Doc("txt", "ok", FileText(f))]
    /\ resp = [r \in Runs |-> 202]
    /\ call = NoCall
    /\ report = NoReport
    /\ lookup = NoLookup
    /\ gw = NoRequest
    /\ norm = NoNorm
    /\ pdf = NoPdf
    /\ triggered = [s \in SubIds |-> 0]
    /\ enabled = [a \in Assignments |-> TRUE]

\* ------------------------------------------------ submit_assignment (steps)

\* The test that adds the background task whatever the assignment says.
ShouldTriggerAlways(a) == TRUE

\* getattr(assignment, 'enable_plagiarism_check', True)
ShouldTrigger(a) == enabled[a]

\* Up to the first commit: look up the student's existing submission and, when
\* resubmitting, delete it (its matches go with it, by ON DELETE CASCADE).
SubmitCheck(s) ==
    /\ spc[s] = "new"
    /\ LET existing == {e \in subs : assignment_id(e) = assignment_id(s)
                                      /\ student_id(e) = student_id(s)}
       IN IF existing = {}
          THEN UNCHANGED <<subs, matches>>
          ELSE \E e \in existing :
                  /\ ~Locked(Referencing(e), 0)
                  /\ subs' = subs \ {e}
                  /\ matches' = matches \ Referencing(e)
    /\ spc' = [spc EXCEPT ![s] = "checked"]
    /\ UNCHANGED envVars
    /\ UNCHANGED runVars

\* db.add(submission); db.commit()
SubmitCreate(s) ==
    /\ spc[s] = "checked"
    /\ subs' = subs \cup {s}
    /\ spc' = [spc EXCEPT ![s] = "created"]
    /\ UNCHANGED envVars
    /\ UNCHANGED <<matches, runVars>>

\* The files are saved and their rows committed.  (A save that fails ends the
\* request with the submission left as it is here, without files.)
SubmitFiles(s) ==
    /\ spc[s] = "created"
    /\ s \in subs
    /\ spc' = [spc EXCEPT ![s] = "filed"]
    /\ triggered' = [triggered EXCEPT
                        ![s] = IF ShouldTrigger(assignment_id(s)) THEN @ + 1 ELSE @]
    /\ UNCHANGED <<content, resp, call, report, pureVars, enabled>>
    /\ UNCHANGED <<subs, matches, runVars>>

\* The files are committed, but building the response raises (the query of
\* the files fails): the request is answered 500 and the background tasks
\* added to it are dropped with it.
SubmitResponseFails(s) ==
    /\ spc[s] = "created"
    /\ s \in subs
    /\ spc' = [spc EXCEPT ![s] = "failed"]
    /\ UNCHANGED envVars
    /\ UNCHANGED <<subs, matches, runVars>>

\* A file fails validation: the new submission is deleted again.
SubmitRejectFile(s) ==
    /\ spc[s] = "created"
    /\ s \in subs
    /\ subs' = subs \ {s}
    /\ spc' = [spc EXCEPT ![s] = "rejected"]
    /\ UNCHANGED envVars
    /\ UNCHANGED <<matches, runVars>>

\* The new submission was deleted by a concurrent resubmission of the same
\* student: the request ends in an error.
SubmitAbort(s) ==
    /\ spc[s] = "created"
    /\ s \notin subs
    /\ spc' = [spc EXCEPT ![s] = "rejected"]
    /\ UNCHANGED envVars
    /\ UNCHANGED <<subs, matches, runVars>>

\* ------------------------------------------------- run_plagiarism_check

\* The orders in which the query (it has no ORDER BY) returns the rows of S:
\* by ascending or by descending id, which lists every pair both ways round.
Orders(S) ==
    {o \in [1..Cardinality(S) -> S] :
        \/ \A i, j \in 1..Cardinality(S) : i < j => o[i] < o[j]
        \/ \A i, j \in 1..Cardinality(S) : i < j => o[i] > o[j]}

ExistingFiles(s, up) == SelectSeq(Files(s), LAMBDA f : f \in Disk(up))

\* The loop building submission_data without the test of file_paths.
PrepareDataAll(submissions, up) ==
    [i \in 1..Len(submissions) |->
        <<IdStr(submissions[i]), student_id(submissions[i]),
          ExistingFiles(submissions[i], up)>>]

RECURSIVE PrepareData(_, _)
\* the loop building submission_data from the list of submissions
PrepareData(submissions, up) ==
    IF submissions = <<>> THEN <<>>
    ELSE LET s     == Head(submissions)
             files == ExistingFiles(s, up)
         IN (IF files # <<>> THEN <<<<IdStr(s), student_id(s), files>>>> ELSE <<>>)
            \o PrepareData(Tail(submissions), up)

\* The task ends (return or exception): its locals are gone and the
\* transaction of its session is over.
Ended(r, how) ==
    /\ pc' = [pc EXCEPT ![r] = how]
    /\ readSubs' = [readSubs EXCEPT ![r] = {}]
    /\ submission_data' = [submission_data EXCEPT ![r] = <<>>]
    /\ results' = [results EXCEPT ![r] = {}]
    /\ targets' = [targets EXCEPT ![r] = {}]
    /\ del' = [del EXCEPT ![r] = {}]
    /\ upstreamDown' = [upstreamDown EXCEPT ![r] = FALSE]

Running(q) == pc[q] \in {"prepared", "blocked", "deleted"}

\* A later run that finds other submissions supersedes the runs still running.
Supersede(r, a, found) ==
    [q \in Runs |->
        IF q = r THEN 0
        ELSE IF Running(q) /\ ra[q] = a /\ readSubs[q] # found /\ supersededBy[q] = 0
             THEN r ELSE supersededBy[q]]

\* Runs are numbered in the order in which they start.
MayStart(r) == IF r = 1 THEN TRUE ELSE pc[r - 1] # "idle"

\* The task may run whether or not the request has been answered.
ScheduledEarly(r, a) == a \in Assignments

\* The task run_plagiarism_check(a) was added by a trigger request, which has
\* been answered 202: a background task runs after the response is sent.
Scheduled(r, a) == resp[r] = 202 /\ ra[r] = a

\* Only the test of the number of submissions.
TooFewSubmissionsOnly(submissions, data) == Len(submissions) < 2

\* Lines 29-30 and 51-53: "if len(submissions) < 2: return" and
\* "if len(submission_data) < 2: return".
TooFew(submissions, data) == Len(submissions) < 2 \/ Len(data) < 2

\* Lines 25-53: query the submissions, keep those with a file that exists, and
\* return when fewer than two are left.
LoadSubmissions(r, a, up) ==
    /\ pc[r] = "idle"
    /\ Scheduled(r, a)
    /\ MayStart(r)
    /\ LET found == {s \in subs : assignment_id(s) = a}
       IN /\ ra' = [ra EXCEPT ![r] = a]
          /\ supersededBy' = Supersede(r, a, found)
          /\ \E submissions \in Orders(found) :
               LET data == PrepareData(submissions, up)
               IN IF TooFew(submissions, data)
                  THEN Ended(r, "returned")
                  ELSE /\ pc' = [pc EXCEPT ![r] = "prepared"]
                       /\ readSubs' = [readSubs EXCEPT ![r] = found]
                       /\ submission_data' = [submission_data EXCEPT ![r] = data]
                       /\ upstreamDown' = [upstreamDown EXCEPT ![r] = ~up]
                       /\ UNCHANGED <<results, targets, del>>
    /\ UNCHANGED envVars
    /\ UNCHANGED <<subs, spc, matches>>

\* The submissions query raises: the database is unreachable.
LoadFails(r, a) ==
    /\ pc[r] = "idle"
    /\ Scheduled(r, a)
    /\ MayStart(r)
    /\ ra' = [ra EXCEPT ![r] = a]
    /\ Ended(r, "unreachable")
    /\ UNCHANGED envVars
    /\ UNCHANGED <<subs, spc, matches, supersededBy>>

\* Lines 56-61 on a session that commits each statement: the DELETE takes
\* effect at once.
CompareAndDeleteAutocommit(r, up) ==
    /\ pc[r] = "prepared"
    /\ results' = [results EXCEPT ![r] =
                       compare_all_submissions(submission_data[r], Disk(up))]
    /\ upstreamDown' = [upstreamDown EXCEPT ![r] = upstreamDown[r] \/ ~up]
    /\ matches' = matches \ Stored(ra[r])
    /\ pc' = [pc EXCEPT ![r] = "deleted"]
    /\ UNCHANGED envVars
    /\ UNCHANGED <<subs, spc, ra, readSubs, submission_data, targets, del,
                   supersededBy>>

\* Lines 56-61: results = compare_all_submissions(submission_data), which
\* reads the files, the file store being reachable (up) or not; then the DELETE
\* statement.  It deletes, within the transaction, the rows of the assignment
\* it sees, or waits for a row another transaction holds.
CompareAndDelete(r, up) ==
    /\ pc[r] = "prepared"
    /\ results' = [results EXCEPT ![r] =
                       compare_all_submissions(submission_data[r], Disk(up))]
    /\ upstreamDown' = [upstreamDown EXCEPT ![r] = upstreamDown[r] \/ ~up]
    /\ IF Locked(Stored(ra[r]), r)
       THEN /\ targets' = [targets EXCEPT ![r] = Stored(ra[r])]
            /\ pc' = [pc EXCEPT ![r] = "blocked"]
            /\ UNCHANGED del
       ELSE /\ del' = [del EXCEPT ![r] = Stored(ra[r])]
            /\ pc' = [pc EXCEPT ![r] = "deleted"]
            /\ UNCHANGED targets
    /\ UNCHANGED envVars
    /\ UNCHANGED <<subs, spc, matches, ra, readSubs, submission_data, supersededBy>>

\* The lock is released: the statement deletes the rows of its snapshot that
\* are still there and sees none committed since it started.
DeleteResume(r) ==
    /\ pc[r] = "blocked"
    /\ ~Locked(targets[r], r)
    /\ del' = [del EXCEPT ![r] = targets[r] \cap matches]
    /\ targets' = [targets EXCEPT ![r] = {}]
    /\ pc' = [pc EXCEPT ![r] = "deleted"]
    /\ UNCHANGED envVars
    /\ UNCHANGED <<subs, spc, matches, ra, readSubs, submission_data, results,
                   upstreamDown, supersededBy>>

\* Lines 65-67 without the swap.
CanonicalNoSwap(sub1_id, sub2_id) == <<sub1_id, sub2_id>>

\* Lines 65-67: the lower id string first.
Canonical(sub1_id, sub2_id) ==
    IF StrGreater(sub1_id, sub2_id) THEN <<sub2_id, sub1_id>> ELSE <<sub1_id, sub2_id>>

\* Lines 64-75: the PlagiarismMatch objects added to the session.
NewMatches(r) ==
    { LET ids == Canonical(res[1], res[2])
      IN [assignment_id |-> ra[r], submission1_id |-> UUID(ids[1]),
          submission2_id |-> UUID(ids[2]), similarity_score |-> res[3], run |-> r] :
      res \in results[r] }

\* CheckConstraint('submission1_id < submission2_id')
check_submission_order(m) == m.submission1_id < m.submission2_id

\* ForeignKey("submissions.id") of submission1_id and submission2_id
SubmissionsExistUnchecked(m) == TRUE

SubmissionsExist(m) == m.submission1_id \in subs /\ m.submission2_id \in subs

\* Line 77: db.commit() flushes the INSERTs and commits the transaction; a row
\* the constraints reject raises, and nothing of the transaction is committed.
\* The commit of a run that inserts its rows and leaves the stored ones.
CommitAppend(r) ==
    /\ pc[r] = "deleted"
    /\ LET new == NewMatches(r)
       IN IF \A m \in new : check_submission_order(m) /\ SubmissionsExist(m)
          THEN /\ matches' = matches \cup new
               /\ Ended(r, "done")
          ELSE /\ Ended(r, "failed")
               /\ UNCHANGED matches
    /\ supersededBy' = [supersededBy EXCEPT ![r] = 0]
    /\ UNCHANGED envVars
    /\ UNCHANGED <<subs, spc, ra>>

Commit(r) ==
    /\ pc[r] = "deleted"
    /\ LET new == NewMatches(r)
       IN IF \A m \in new : check_submission_order(m) /\ SubmissionsExist(m)
          THEN /\ matches' = (matches \ del[r]) \cup new
               /\ Ended(r, "done")
          ELSE /\ Ended(r, "failed")
               /\ UNCHANGED matches
    /\ supersededBy' = [supersededBy EXCEPT ![r] = 0]
    /\ UNCHANGED envVars
    /\ UNCHANGED <<subs, spc, ra>>

\* A failure after which the deletes of the transaction stay.
PersistenceFailsNoRollback(r) ==
    /\ pc[r] \in {"prepared", "blocked", "deleted"}
    /\ matches' = matches \ del[r]
    /\ Ended(r, "failed")
    /\ supersededBy' = [supersededBy EXCEPT ![r] = 0]
    /\ UNCHANGED envVars
    /\ UNCHANGED <<subs, spc, ra>>

\* The database fails at the DELETE (after the comparison), at an INSERT or at
\* the COMMIT: the exception ends the task and the transaction is rolled back.
PersistenceFails(r) ==
    /\ pc[r] \in {"prepared", "blocked", "deleted"}
    /\ Ended(r, "failed")
    /\ supersededBy' = [supersededBy EXCEPT ![r] = 0]
    /\ UNCHANGED envVars
    /\ UNCHANGED <<subs, spc, matches, ra>>

\* ------------------------------------------------------------------ readers

\* The other submission of a match of submission s (line 289).
OtherSubmission(m, s) ==
    IF m.submission1_id = s THEN m.submission2_id ELSE m.submission1_id

\* GET /submissions/{submission_id}/plagiarism-report up to the query for the
\* matches (lines 259-285), by a teacher of the course or an admin (permitted)
\* or by another teacher; the request is then in progress (status 1) with the
\* rows the query returned.
get_submission_plagiarism_matches(s, permitted) ==
    /\ lookup.status # 1
    /\ lookup' = IF s \notin subs THEN [status |-> 404]
                 ELSE IF ~permitted THEN [status |-> 403]
                 ELSE [status |-> 1, submission_id |-> s, rows |-> Referencing(s)]
    /\ UNCHANGED <<subs, spc, matches, runVars, content, resp, call, report,
                   gw, norm, pdf, submitVars>>

\* The loop building match_list (lines 287-308): one query per match for the
\* other submission, whose student_id is read; the attribute access raises
\* when the query finds no row, and the request ends with status 500.
BuildMatchList ==
    /\ lookup.status = 1
    /\ LET s == lookup.submission_id
       IN lookup' =
             IF \E m \in lookup.rows : OtherSubmission(m, s) \notin subs
             THEN [status |-> 500]
             ELSE [status |-> 200, submission_id |-> s,
                   matches |-> {[match |-> m,
                                 other_submission_id |-> OtherSubmission(m, s),
                                 other_student |-> student_id(OtherSubmission(m, s)),
                                 similarity_score |-> m.similarity_score] :
                                m \in lookup.rows}]
    /\ UNCHANGED <<subs, spc, matches, runVars, content, resp, call, report,
                   gw, norm, pdf, submitVars>>

\* The response with total_comparisons counting the listed matches.
PlagiarismReportResponseFilteredTotal(a, threshold) ==
    LET all_matches == Stored(a)
        listed == {m \in all_matches : /\ m.similarity_score >= threshold
                                        /\ m.submission1_id \in subs
                                        /\ m.submission2_id \in subs}
    IN [total_submissions |-> Cardinality({s \in subs : assignment_id(s) = a}),
        total_comparisons |-> Cardinality(listed),
        matches |-> {[id |-> m.run,
                      submission1_id |-> m.submission1_id,
                      submission2_id |-> m.submission2_id,
                      similarity_score |-> m.similarity_score,
                      student1 |-> student_id(m.submission1_id),
                      student2 |-> student_id(m.submission2_id)] : m \in listed},
        high_similarity_count |->
            Cardinality({m \in all_matches : m.similarity_score > 7000}),
        medium_similarity_count |->
            Cardinality({m \in all_matches : /\ 5000 <= m.similarity_score
                                              /\ m.similarity_score <= 7000})]

\* The response with the two severity counts taken over the listed matches.
PlagiarismReportResponseFilteredCounts(a, threshold) ==
    LET all_matches == Stored(a)
        listed == {m \in all_matches : /\ m.similarity_score >= threshold
                                        /\ m.submission1_id \in subs
                                        /\ m.submission2_id \in subs}
    IN [total_submissions |-> Cardinality({s \in subs : assignment_id(s) = a}),
        total_comparisons |-> Cardinality(all_matches),
        matches |-> {[id |-> m.run,
                      submission1_id |-> m.submission1_id,
                      submission2_id |-> m.submission2_id,
                      similarity_score |-> m.similarity_score,
                      student1 |-> student_id(m.submission1_id),
                      student2 |-> student_id(m.submission2_id)] : m \in listed},
        high_similarity_count |->
            Cardinality({m \in listed : m.similarity_score > 7000}),
        medium_similarity_count |->
            Cardinality({m \in listed : /\ 5000 <= m.similarity_score
                                         /\ m.similarity_score <= 7000})]

\* The response with a score of exactly 70 counted as high too.
PlagiarismReportResponseHighFrom70(a, threshold) ==
    LET all_matches == Stored(a)
        listed == {m \in all_matches : /\ m.similarity_score >= threshold
                                        /\ m.submission1_id \in subs
                                        /\ m.submission2_id \in subs}
    IN [total_submissions |-> Cardinality({s \in subs : assignment_id(s) = a}),
        total_comparisons |-> Cardinality(all_matches),
        matches |-> {[id |-> m.run,
                      submission1_id |-> m.submission1_id,
                      submission2_id |-> m.submission2_id,
                      similarity_score |-> m.similarity_score,
                      student1 |-> student_id(m.submission1_id),
                      student2 |-> student_id(m.submission2_id)] : m \in listed},
        high_similarity_count |->
            Cardinality({m \in all_matches : m.similarity_score >= 7000}),
        medium_similarity_count |->
            Cardinality({m \in all_matches : /\ 5000 <= m.similarity_score
                                              /\ m.similarity_score <= 7000})]

\* The response of get_plagiarism_report(a, threshold), lines 184-245: scores
\* and threshold in hundredths; the list of matches as the set of its entries,
\* each with the student_id of both submissions.
PlagiarismReportResponse(a, threshold) ==
    LET all_matches == Stored(a)
        listed == {m \in all_matches : /\ m.similarity_score >= threshold
                                        /\ m.submission1_id \in subs
                                        /\ m.submission2_id \in subs}
    IN [total_submissions |-> Cardinality({s \in subs : assignment_id(s) = a}),
        total_comparisons |-> Cardinality(all_matches),
        matches |-> {[id |-> m.run,
                      submission1_id |-> m.submission1_id,
                      submission2_id |-> m.submission2_id,
                      similarity_score |-> m.similarity_score,
                      student1 |-> student_id(m.submission1_id),
                      student2 |-> student_id(m.submission2_id)] : m \in listed},
        high_similarity_count |->
            Cardinality({m \in all_matches : m.similarity_score > 7000}),
        medium_similarity_count |->
            Cardinality({m \in all_matches : /\ 5000 <= m.similarity_score
                                              /\ m.similarity_score <= 7000})]

\* An assignment id no assignment has.
NoAssignment == 2

\* The thresholds of the requests, in hundredths: the default 70.0, zero and
\* one above every score.
Thresholds == {0, 7000, 10001}

\* GET /assignments/{assignment_id}/plagiarism-report, by a teacher enrolled in
\* the course or an admin (permitted) or by another teacher: the handler
\* changes nothing in the database.
get_plagiarism_report(a, threshold, permitted) ==
    /\ report' = IF a \notin Assignments THEN [status |-> 404]
                 ELSE IF ~permitted THEN [status |-> 403]
                 ELSE [status |-> 200, assignment_id |-> a, threshold |-> threshold,
                       response |-> PlagiarismReportResponse(a, threshold)]
    /\ UNCHANGED <<subs, spc, matches, runVars, content, resp, call, pureVars, submitVars>>

\* ----------------------------------------------------------------- triggers

\* Requests are numbered in the order in which they arrive.
Requested(r) == IF r = 1 THEN TRUE ELSE resp[r - 1] # 0

\* The handler adds the task and returns; the task runs after the response.
Schedule(r, a) ==
    /\ resp' = [resp EXCEPT ![r] = 202]
    /\ ra' = [ra EXCEPT ![r] = a]
    /\ UNCHANGED pc

\* The handler raises an HTTPException: no task is added.
Refuse(r, code) ==
    /\ resp' = [resp EXCEPT ![r] = code]
    /\ pc' = [pc EXCEPT ![r] = "unscheduled"]
    /\ UNCHANGED ra

\* POST /internal/assignments/{assignment_id}/plagiarism-check
trigger_plagiarism_check_internal(r, a) ==
    /\ resp[r] = 0 /\ pc[r] = "idle"
    /\ Requested(r)
    /\ IF a \notin Assignments THEN Refuse(r, 404) ELSE Schedule(r, a)
    /\ UNCHANGED <<subs, spc, matches, readSubs, submission_data, results, targets,
                   del, upstreamDown, supersededBy, content, call, report,
                   pureVars, submitVars>>

\* POST /assignments/{assignment_id}/plagiarism-check, by a teacher enrolled
\* in the course or an admin (permitted) or by another teacher.
trigger_plagiarism_check(r, a, permitted) ==
    /\ resp[r] = 0 /\ pc[r] = "idle"
    /\ Requested(r)
    /\ IF a \notin Assignments THEN Refuse(r, 404)
       ELSE IF ~permitted THEN Refuse(r, 403)
       ELSE Schedule(r, a)
    /\ UNCHANGED <<subs, spc, matches, readSubs, submission_data, results, targets,
                   del, upstreamDown, supersededBy, content, call, report,
                   pureVars, submitVars>>

\* ------------------------------------------------------------ specification

Next ==
    \/ \E s \in SubIds : SubmitCheck(s)
    \/ \E s \in SubIds : SubmitCreate(s)
    \/ \E s \in SubIds : SubmitFiles(s)
    \/ \E s \in SubIds : SubmitRejectFile(s)
    \/ \E s \in SubIds : SubmitAbort(s)
    \/ \E r \in Runs, a \in Assignments, up \in BOOLEAN : LoadSubmissions(r, a, up)
    \/ \E r \in Runs, a \in Assignments : LoadFails(r, a)
    \/ \E r \in Runs, up \in BOOLEAN : CompareAndDelete(r, up)
    \/ \E r \in Runs : DeleteResume(r)
    \/ \E r \in Runs : Commit(r)
    \/ \E r \in Runs : PersistenceFails(r)

Spec == Init /\ [][Next]_vars

\* ------------------------------------- recomputes of an unchanged assignment

\* The matches a recompute of the submissions S stores when nothing fails.
OutputOf(S, a, id) ==
    LET submissions == CHOOSE o \in Orders(S) : TRUE
        data == PrepareData(submissions, TRUE)
    IN { LET ids == Canonical(res[1], res[2])
         IN [assignment_id |-> a, submission1_id |-> UUID(ids[1]),
             submission2_id |-> UUID(ids[2]), similarity_score |-> res[3], run |-> id] :
         res \in compare_all_submissions(data, Disk(TRUE)) }

\* An assignment whose three submissions (of X, Y and Z, or of Y, Z and X with
\* two files) are in, with one of the upload directories, after a first
\* recompute (run 0); no trigger request has been made yet.
InitCorpus ==
    /\ content \in Corpora
    /\ subs \in {{9, 10, 26}, {10, 26, 161}}
    /\ spc = [s \in SubIds |-> IF s \in subs THEN "filed" ELSE "new"]
    /\ matches = OutputOf(subs, 1, 0)
    /\ pc = [r \in Runs |-> "idle"]
    /\ ra = [r \in Runs |-> 0]
    /\ readSubs = [r \in Runs |-> {}]
    /\ submission_data = [r \in Runs |-> <<>>]
    /\ results = [r \in Runs |-> {}]
    /\ targets = [r \in Runs |-> {}]
    /\ del = [r \in Runs |-> {}]
    /\ upstreamDown = [r \in Runs |-> FALSE]
    /\ supersededBy = [r \in Runs |-> 0]
    /\ resp = [r \in Runs |-> 0]
    /\ call = NoCall
    /\ report = NoReport
    /\ lookup = NoLookup
    /\ gw = NoRequest
    /\ norm = NoNorm
    /\ pdf = NoPdf
    /\ triggered = [s \in SubIds |-> 0]
    /\ enabled = [a \in Assignments |-> TRUE]

\* The assignment ids of the requests: the assignment of the upload
\* directory and an id no assignment has.
CorpusRequests == {1, NoAssignment}

NextCorpus ==
    \/ \E r \in Runs, a \in CorpusRequests :
          trigger_plagiarism_check_internal(r, a)
    \/ \E r \in Runs, a \in CorpusRequests, permitted \in BOOLEAN :
          trigger_plagiarism_check(r, a, permitted)
    \/ \E r \in Runs, a \in {1}, up \in BOOLEAN : LoadSubmissions(r, a, up)
    \/ \E r \in Runs, a \in {1} : LoadFails(r, a)
    \/ \E r \in Runs, up \in BOOLEAN : CompareAndDelete(r, up)
    \/ \E r \in Runs : DeleteResume(r)
    \/ \E r \in Runs : Commit(r)
    \/ \E r \in Runs : PersistenceFails(r)
    \/ \E a \in CorpusRequests, threshold \in Thresholds,
          permitted \in BOOLEAN : get_plagiarism_report(a, threshold, permitted)

SpecCorpus == InitCorpus /\ [][NextCorpus]_vars

\* ------------------------------ calls of compare_all_files_in_submissions

\* Lists of one or two files, as submission.files gives them.
Bundles ==
    {<<>>} \cup {<<f>> : f \in FileNames}
    \cup {<<p[1], p[2]>> : p \in {q \in FileNames \X FileNames : q[1] # q[2]}}

\* A call with its arguments, before it returns.
InitCompare ==
    /\ content \in Corpora
    /\ call \in [files1 : Bundles, files2 : Bundles, similarity : {-1}]
    /\ subs = {9, 10, 26}
    /\ spc = [s \in SubIds |-> IF s \in subs THEN "filed" ELSE "new"]
    /\ matches = OutputOf(subs, 1, 0)
    /\ pc = [r \in Runs |-> "idle"]
    /\ ra = [r \in Runs |-> 0]
    /\ readSubs = [r \in Runs |-> {}]
    /\ submission_data = [r \in Runs |-> <<>>]
    /\ results = [r \in Runs |-> {}]
    /\ targets = [r \in Runs |-> {}]
    /\ del = [r \in Runs |-> {}]
    /\ upstreamDown = [r \in Runs |-> FALSE]
    /\ supersededBy = [r \in Runs |-> 0]
    /\ resp = [r \in Runs |-> 0]
    /\ report = NoReport
    /\ lookup = NoLookup
    /\ gw = NoRequest
    /\ norm = NoNorm
    /\ pdf = NoPdf
    /\ triggered = [s \in SubIds |-> 0]
    /\ enabled = [a \in Assignments |-> TRUE]

\* The call returns, the files of disk being there.
CompareFiles(disk) ==
    /\ call.similarity = -1
    /\ call' = [call EXCEPT !.similarity =
                   compare_all_files_in_submissions(call.files1, call.files2, disk)]
    /\ UNCHANGED <<subs, spc, matches, runVars, content, resp, report, pureVars,
                   submitVars>>

NextCompare == \E disk \in {FileNames, FileNames \ {"f1"}} : CompareFiles(disk)

SpecCompare == InitCompare /\ [][NextCompare]_vars

\* ------------------------------------------------------------------ claims

StoredNext(a) == {m \in matches' : m.assignment_id = a}

Commits(r) == pc[r] = "deleted" /\ pc'[r] = "done"

\* C1: when a run completes with the file store reachable, the match set
\* stored for its assignment is exactly the output of that run: its rows and no
\* row of an earlier run.
C1_StoredIsOutputOfLastRun ==
    [][\A r \in Runs :
          Commits(r) /\ ~upstreamDown[r] => StoredNext(ra[r]) = NewMatches(r)]_vars

C3_FailedReplaceKeepsMatches ==
    [][\A r \in Runs :
          pc[r] \in {"prepared", "blocked", "deleted"} /\ pc'[r] = "failed"
             => matches' = matches]_vars

\* A run has failed and the matches of its assignment are still stored.
C3_Witness == \E r \in Runs : pc[r] = "failed" /\ Stored(ra[r]) # {}

\* C4: the stored matches of an assignment are all rows of one run: no row
\* written by another run is among them.
C4_NoMergeOfRuns ==
    \A m, n \in matches : m.assignment_id = n.assignment_id => m.run = n.run

\* C5: a run superseded by a later run that found other submissions does not
\* commit last: when it commits, the later run has not stored its output yet.
C5_SupersededNeverWins ==
    [][\A r \in Runs :
          Commits(r) /\ supersededBy[r] # 0 /\ ~upstreamDown[r]
             => \A m \in Stored(ra[r]) : m.run # supersededBy[r]]_vars

\* C6: a run during which the file store was unreachable writes nothing: the
\* stored matches are the same after it as before.
C6_UpstreamDownWritesNothing ==
    [][\A r \in Runs : upstreamDown[r] /\ pc'[r] # pc[r] => matches' = matches]_vars

\* The rows a run has added to its session, waiting for the commit.
Pending(r) == IF pc[r] \in {"blocked", "deleted"} THEN NewMatches(r) ELSE {}

\* C7: every stored match, and every match a run is about to insert, has
\* submission1_id < submission2_id, in whichever order the pair was listed.
C7_CanonicalOrder ==
    /\ \A m \in matches : m.submission1_id < m.submission2_id
    /\ \A r \in Runs : \A m \in Pending(r) : m.submission1_id < m.submission2_id

\* A run holds a result whose pair was listed with the higher id first.
C7_Witness ==
    \E r \in Runs : /\ pc[r] = "deleted"
                    /\ \E res \in results[r] : UUID(res[1]) > UUID(res[2])

\* C8: no two stored rows of an assignment have the same pair of submissions.
C8_PairStoredOnce ==
    \A m, n \in matches :
        /\ m.assignment_id = n.assignment_id
        /\ m.submission1_id = n.submission1_id
        /\ m.submission2_id = n.submission2_id
        => m = n

\* C9: every stored match, and every result of a comparison, has a score
\* above 0 and at most 100.00.
C9_ScoreRange ==
    /\ \A m \in matches : m.similarity_score > 0 /\ m.similarity_score <= 10000
    /\ \A r \in Runs : \A res \in results[r] : res[3] > 0 /\ res[3] <= 10000

\* A run compared two submissions of different students and kept no result
\* for them: their score was 0.
C9_Witness ==
    \E r \in Runs :
        /\ pc[r] = "deleted"
        /\ results[r] # {}
        /\ \E i, j \in 1..Len(submission_data[r]) :
              /\ i < j
              /\ submission_data[r][i][2] # submission_data[r][j][2]
              /\ \A res \in results[r] :
                    ~(res[1] = submission_data[r][i][1] /\ res[2] = submission_data[r][j][1])

\* C10: no stored match, and no result of a comparison, pairs two submissions
\* of the same student.
C10_NoSameStudentMatch ==
    /\ \A m \in matches : student_id(m.submission1_id) # student_id(m.submission2_id)
    /\ \A r \in Runs : \A res \in results[r] :
          student_id(UUID(res[1])) # student_id(UUID(res[2]))

\* A run compared a list holding two submissions of one student and kept
\* results.
C10_Witness ==
    \E r \in Runs :
        /\ results[r] # {}
        /\ \E i, j \in 1..Len(submission_data[r]) :
              i < j /\ submission_data[r][i][2] = submission_data[r][j][2]

\* The scenario: S1 = 9 (student X), S2 = 10 (Y), S3 = 26 (Z), one text file
\* each, with the texts as given (19, 19 and 33 characters) ...
ScenarioShort ==
    /\ subs = {9, 10, 26}
    /\ content["f1"] = Doc("txt", "ok", Fox)
    /\ content["f2"] = Doc("txt", "ok", Fox)
    /\ content["f3"] = Doc("txt", "ok", Other)

\* ... and with each text repeated to 59, 59 and 67 characters.
ScenarioLong ==
    /\ subs = {9, 10, 26}
    /\ content["f1"] = Doc("txt", "ok", Fox3)
    /\ content["f2"] = Doc("txt", "ok", Fox3)
    /\ content["f3"] = Doc("txt", "ok", Other2)

\* Run r commits, having read every file and deleted every stored match of the
\* assignment: a recompute on its own.
CommitsAlone(r) == Commits(r) /\ ~upstreamDown[r] /\ del[r] = Stored(ra[r])

\* C11: in the scenario (S1 and S2 "the quick brown fox", S3 "completely
\* different content here") a recompute stores a match for (S1, S2) with
\* score about 100, none for (S1, S3) or (S2, S3), and the report then has
\* total_comparisons = 1.
C11_Scenario ==
    [][\A r \in Runs :
          CommitsAlone(r) /\ ScenarioShort =>
             /\ \E m \in StoredNext(1) : /\ m.submission1_id = 9
                                         /\ m.submission2_id = 10
                                         /\ m.similarity_score >= 9990
             /\ \A m \in StoredNext(1) : m.submission1_id = 9 /\ m.submission2_id = 10
             /\ (PlagiarismReportResponse(1, 7000).total_comparisons)' = 1]_vars

\* C11 as amended: with the texts of the scenario, each shorter than 50
\* characters, a recompute stores no match and total_comparisons is 0; with
\* the same texts repeated to 50 characters or more it stores exactly the match
\* (S1, S2) with score 100.00 and total_comparisons is 1.
C11_ScenarioAmended ==
    [][\A r \in Runs :
          CommitsAlone(r) =>
             /\ ScenarioShort =>
                   /\ StoredNext(1) = {}
                   /\ (PlagiarismReportResponse(1, 7000).total_comparisons)' = 0
             /\ ScenarioLong =>
                   /\ StoredNext(1) = {[assignment_id |-> 1, submission1_id |-> 9,
                                        submission2_id |-> 10,
                                        similarity_score |-> 10000, run |-> r]}
                   /\ (PlagiarismReportResponse(1, 7000).total_comparisons)' = 1]_vars

\* A recompute of the scenario with the long texts has stored its match.
C11_Witness ==
    /\ ScenarioLong
    /\ \E r \in Runs : pc[r] = "done" /\ \E m \in matches : m.run = r

\* The text the code extracts from file f when the file is on disk.
TextOf(f) == extract_text_from_file(f, FileNames)

\* compare_all_files_in_submissions has returned.
Returned == call.similarity # -1

\* C12: when the normalized text of a file has fewer than 50 characters the
\* comparison scores 0: a call all of whose files are that short returns 0
\* (and so yields no stored match).
C12_ShortNormalizedScoresZero ==
    (/\ Returned
     /\ \A f \in Range(call.files1) \cup Range(call.files2) :
           NormLen(TextOf(f)) < MinTextLen)
    => call.similarity = 0

\* C13: the score of two submissions is the maximum over their file pairs:
\* what compare_all_files_in_submissions returns is at least the score of
\* compare_submissions for every pair of one file of each submission, and is
\* the score of one of the pairs when there is a pair.
C13_MaxOverFilePairs ==
    [][\A disk \in {FileNames, FileNames \ {"f1"}} :
          CompareFiles(disk) =>
             LET I == 1..Len(call.files1)
                 J == 1..Len(call.files2)
                 pair(i, j) == compare_submissions(call.files1[i], call.files2[j], disk)
             IN /\ \A i \in I, j \in J : call'.similarity >= pair(i, j)
                /\ I # {} /\ J # {} =>
                      \E i \in I, j \in J : call'.similarity = pair(i, j)]_vars

\* A call with two files on each side returned 70.00 although one of its file
\* pairs scores only 50.00.
C13_Witness ==
    /\ Returned
    /\ Len(call.files1) = 2 /\ Len(call.files2) = 2
    /\ call.similarity = 7000
    /\ \E i \in 1..2, j \in 1..2 :
          compare_submissions(call.files1[i], call.files2[j], FileNames) = 5000

\* The pairs and scores of a set of rows.
PairScores(S) ==
    {<<m.submission1_id, m.submission2_id, m.similarity_score>> : m \in S}

\* C14: a recompute on unchanged submissions and files, after an earlier
\* recompute of them, stores the same pairs with the same scores, and stores
\* them anew: every row is a row of the later run and none of the earlier one
\* is left or skipped.
C14_RecomputeIdempotent ==
    [][\A r \in Runs : \A q \in 0..MaxRuns :
          (/\ CommitsAlone(r)
           /\ q # r
           /\ Stored(ra[r]) = OutputOf(subs, ra[r], q))
          => /\ PairScores(StoredNext(ra[r])) = PairScores(Stored(ra[r]))
             /\ Cardinality(StoredNext(ra[r])) = Cardinality(Stored(ra[r]))
             /\ \A m \in StoredNext(ra[r]) : m.run = r]_vars

\* A second recompute has replaced the rows of the first by its own.
C14_Witness ==
    \E r \in Runs : /\ pc[r] = "done"
                    /\ Cardinality(matches) >= 2
                    /\ \A m \in matches : m.run = r

\* The files of a submission listed in the opposite order.
Reverse(files) == [i \in 1..Len(files) |-> files[Len(files) + 1 - i]]

\* The pairs, ordered by id, and scores that compare_all_submissions finds when
\* the submissions are listed in the order o.
ResultPairs(o) ==
    {<<Canonical(res[1], res[2]), res[3]>> :
        res \in compare_all_submissions(PrepareData(o, TRUE), Disk(TRUE))}

\* C15: the score is symmetric and does not depend on the listing order:
\* compare_all_files_in_submissions returns the same score with its two
\* arguments exchanged and with the files of each listed in the opposite order,
\* and every listing order of the submissions gives the same pairs and scores.
C15_Symmetric ==
    /\ [][\A disk \in {FileNames, FileNames \ {"f1"}} :
             CompareFiles(disk) =>
                /\ call'.similarity =
                      compare_all_files_in_submissions(call.files2, call.files1, disk)
                /\ call'.similarity =
                      compare_all_files_in_submissions(Reverse(call.files1),
                                                       Reverse(call.files2), disk)]_vars
    /\ [](\A o1, o2 \in Orders(subs) : ResultPairs(o1) = ResultPairs(o2))

\* A call on two different two-file submissions with unlike texts returned a
\* score strictly between 0 and 100.
C15_Witness ==
    /\ Returned
    /\ Len(call.files1) = 2 /\ Len(call.files2) = 2
    /\ Range(call.files1) \cap Range(call.files2) = {}
    /\ call.similarity > 0 /\ call.similarity < 10000

\* C16: a submission is never compared with itself: the two entries of every
\* pair the loops of a run visit are different submissions, and no match,
\* stored or about to be stored, has submission1_id = submission2_id.
C16_NoSelfComparison ==
    /\ \A r \in Runs :
          \A q \in IndexPairs(Len(submission_data[r])) :
             submission_data[r][q[1]][1] # submission_data[r][q[2]][1]
    /\ \A m \in matches : m.submission1_id # m.submission2_id
    /\ \A r \in Runs : \A m \in Pending(r) : m.submission1_id # m.submission2_id

\* A run has compared the pairs of three submissions and holds a result.
C16_Witness ==
    \E r \in Runs : /\ pc[r] = "deleted"
                    /\ Len(submission_data[r]) = 3
                    /\ results[r] # {}

\* The request for the report of assignment a with threshold t is answered.
Reports(a, t) == get_plagiarism_report(a, t, TRUE)

C18_SeverityCounts ==
    [][\A a \in Assignments, t \in Thresholds :
          Reports(a, t) =>
             LET response == report'.response
             IN /\ response.high_similarity_count =
                      Cardinality({m \in Stored(a) : m.similarity_score > 7000})
                /\ response.medium_similarity_count =
                      Cardinality({m \in Stored(a) : m.similarity_score \in 5000..7000})
                /\ \A u \in Thresholds :
                      LET other == PlagiarismReportResponse(a, u)
                      IN /\ other.high_similarity_count = response.high_similarity_count
                         /\ other.medium_similarity_count =
                               response.medium_similarity_count]_vars

\* A report with a threshold above every score lists nothing and counts one
\* high match and two medium ones, the scores being 50.00, 70.00 and 80.00.
C18_Witness ==
    /\ report.status = 200
    /\ report.threshold = 10001
    /\ report.response.matches = {}
    /\ report.response.high_similarity_count = 1
    /\ report.response.medium_similarity_count = 2
    /\ {m.similarity_score : m \in Stored(report.assignment_id)} = {5000, 7000, 8000}

\* The position of a run whose task has not started (or was never added).
NotStarted == {"idle", "unscheduled"}

\* C19: a trigger request only schedules the recompute and is answered at
\* once: the step that answers it does none of the work of the run and writes
\* no match; a run starts only after its request has been answered 202; and
\* the answer 202, once given, stays whatever becomes of the run.
C19_TriggerOnlySchedules ==
    [][\A r \in Runs :
          /\ resp'[r] # resp[r] =>
                /\ pc[r] = "idle" /\ pc'[r] \in NotStarted
                /\ UNCHANGED <<matches, readSubs, submission_data, results, targets, del>>
          /\ (pc[r] = "idle" /\ pc'[r] \notin NotStarted) => resp[r] = 202
          /\ resp[r] = 202 => resp'[r] = 202]_vars

\* A run whose request was answered 202 has failed.
C19_Witness ==
    \E r \in Runs : resp[r] = 202 /\ pc[r] \in {"failed", "unreachable"}

\* The extensions extract_text_from_file has a branch for.
Recognized == {"pdf", "docx", "doc", "xlsx", "xls", "txt", ""}

\* File f is corrupt, of an unrecognized format, not decodable, or needs a
\* parser library that is not installed.
Failing(f) == content[f].state # "ok" \/ content[f].ext \notin Recognized

\* The files run r handed to compare_all_submissions.
FilesOf(r) ==
    UNION {Range(submission_data[r][i][3]) : i \in 1..Len(submission_data[r])}

\* Run r commits, having read the upload directory, with a failing file among
\* the files it compared.
CommitsDespiteFailure(r) ==
    Commits(r) /\ ~upstreamDown[r] /\ \E f \in FilesOf(r) : Failing(f)

\* C20: every failing file (corrupt or unsupported format, decode error,
\* missing parser library) is extracted as "", and the run still compares and
\* stores every other pair.
C20_FailuresYieldEmpty ==
    [][\A r \in Runs :
          CommitsDespiteFailure(r) =>
             \A f \in FilesOf(r) : Failing(f) => TextOf(f) = EmptyText]_vars

\* C20 as amended: extraction never stops a run. A file that is missing, that
\* its parser cannot read, whose parser library is not installed, or that cannot
\* be opened is extracted as ""; a file of an unrecognized extension, or with
\* bytes that do not decode, is read as text with those bytes left out, which
\* need not be "". A run with such files among its input still stores a match
\* for every pair of submissions of different students that has a pair of
\* files scoring above 0.
C20_FailuresContained ==
    [][\A r \in Runs :
          CommitsDespiteFailure(r) =>
             /\ \A f \in FilesOf(r) :
                   /\ content[f].state \in {"corrupt", "nolib"} => TextOf(f) = EmptyText
                   /\ extract_text_from_file(f, FileNames \ {f}) = EmptyText
                   /\ (/\ content[f].ext \notin {"pdf", "docx", "doc", "xlsx", "xls"}
                       /\ content[f].state \in {"ok", "undecodable"})
                      => TextOf(f) = content[f].text
             /\ \A q \in IndexPairs(Len(submission_data[r])) :
                   LET e1 == submission_data[r][q[1]]
                       e2 == submission_data[r][q[2]]
                       ids == Canonical(e1[1], e2[1])
                   IN \A f \in Range(e1[3]), g \in Range(e2[3]) :
                         (e1[2] # e2[2] /\ compare_submissions(f, g, Disk(TRUE)) > 0)
                         => \E m \in StoredNext(ra[r]) :
                               /\ m.run = r
                               /\ m.submission1_id = UUID(ids[1])
                               /\ m.submission2_id = UUID(ids[2])
                               /\ m.similarity_score >=
                                     compare_submissions(f, g, Disk(TRUE))]_vars

\* A run over an upload directory with a corrupt file has stored a match.
C20_Witness ==
    \E r \in Runs : /\ pc[r] = "done"
                    /\ \E s \in subs : \E f \in Range(Files(s)) :
                          content[f].state = "corrupt"
                    /\ \E m \in matches : m.run = r

\* ------------------------------------------- recomputes of two assignments

\* Both assignments have their submissions in and their matches stored by an
\* earlier recompute (run 0); each run has been scheduled for one of the
\* assignments.
InitScope ==
    /\ content = [f \in FileNames \cup OtherFileNames |-> Doc("txt", "ok", FileText(f))]
    /\ subs = {9, 10, 26, 50, 51}
    /\ spc = [s \in SubIds |-> IF s \in subs THEN "filed" ELSE "new"]
    /\ matches = UNION {OutputOf({s \in subs : assignment_id(s) = a}, a, 0) :
                           a \in Assignments}
    /\ pc = [r \in Runs |-> "idle"]
    /\ ra \in [Runs -> Assignments]
    /\ readSubs = [r \in Runs |-> {}]
    /\ submission_data = [r \in Runs |-> <<>>]
    /\ results = [r \in Runs |-> {}]
    /\ targets = [r \in Runs |-> {}]
    /\ del = [r \in Runs |-> {}]
    /\ upstreamDown = [r \in Runs |-> FALSE]
    /\ supersededBy = [r \in Runs |-> 0]
    /\ resp = [r \in Runs |-> 202]
    /\ call = NoCall
    /\ report = NoReport
    /\ lookup = NoLookup
    /\ gw = NoRequest
    /\ norm = NoNorm
    /\ pdf = NoPdf
    /\ triggered = [s \in SubIds |-> 0]
    /\ enabled = [a \in Assignments |-> TRUE]

NextScope ==
    \/ \E r \in Runs, a \in Assignments, up \in BOOLEAN : LoadSubmissions(r, a, up)
    \/ \E r \in Runs, a \in Assignments : LoadFails(r, a)
    \/ \E r \in Runs, up \in BOOLEAN : CompareAndDelete(r, up)
    \/ \E r \in Runs : DeleteResume(r)
    \/ \E r \in Runs : Commit(r)
    \/ \E r \in Runs : PersistenceFails(r)

SpecScope == InitScope /\ [][NextScope]_vars

\* The step is one of run r.
StepOf(r) ==
    <<pc[r], results[r], targets[r], del[r]>>' # <<pc[r], results[r], targets[r], del[r]>>

\* C21: a run is scoped to its assignment: no step of a run for assignment A,
\* whether the run completes or fails and whatever other runs are under way,
\* changes the matches stored for another assignment B, and the rows its
\* transaction deletes are rows of A.
C21_RunScopedToAssignment ==
    [][\A r \in Runs :
          StepOf(r) =>
             /\ \A b \in Assignments \ {ra[r]} :
                   {m \in matches' : m.assignment_id = b}
                   = {m \in matches : m.assignment_id = b}
             /\ \A m \in del'[r] \cup targets'[r] : m.assignment_id = ra[r]]_vars

\* A run for each assignment has completed, the two having been in progress
\* together, and the rows of both are stored.
C21_Witness ==
    \E r, q \in Runs :
       /\ ra[r] = 1 /\ ra[q] = 3
       /\ pc[r] = "done" /\ pc[q] = "done"
       /\ \E m \in matches : m.run = r
       /\ \E m \in matches : m.run = q

\* ------------------------------------------ lookups during resubmissions

\* Both assignments have their submissions in and their matches stored;
\* student X, who has submitted (9 or 161), may submit again (161 or 9).
InitLookup ==
    /\ content = [f \in FileNames \cup OtherFileNames |-> Doc("txt", "ok", FileText(f))]
    /\ subs \in {{9, 10, 26, 50, 51}, {10, 26, 50, 51, 161}}
    /\ spc = [s \in SubIds |-> IF s \in subs THEN "filed" ELSE "new"]
    /\ matches = UNION {OutputOf({s \in subs : assignment_id(s) = a}, a, 0) :
                           a \in Assignments}
    /\ pc = [r \in Runs |-> "idle"]
    /\ ra = [r \in Runs |-> 0]
    /\ readSubs = [r \in Runs |-> {}]
    /\ submission_data = [r \in Runs |-> <<>>]
    /\ results = [r \in Runs |-> {}]
    /\ targets = [r \in Runs |-> {}]
    /\ del = [r \in Runs |-> {}]
    /\ upstreamDown = [r \in Runs |-> FALSE]
    /\ supersededBy = [r \in Runs |-> 0]
    /\ resp = [r \in Runs |-> 0]
    /\ call = NoCall
    /\ report = NoReport
    /\ lookup = NoLookup
    /\ gw = NoRequest
    /\ norm = NoNorm
    /\ pdf = NoPdf
    /\ triggered = [s \in SubIds |-> 0]
    /\ enabled = [a \in Assignments |-> TRUE]

NextLookup ==
    \/ \E s \in SubIds : SubmitCheck(s)
    \/ \E s \in SubIds : SubmitCreate(s)
    \/ \E s \in SubIds : SubmitFiles(s)
    \/ \E s \in SubIds : SubmitRejectFile(s)
    \/ \E s \in SubIds, permitted \in BOOLEAN : get_submission_plagiarism_matches(s, permitted)
    \/ BuildMatchList

SpecLookup == InitLookup /\ [][NextLookup]_vars

\* C22: for an existing submission s, get_submission_plagiarism_matches
\* returns exactly the stored matches that have s as submission1_id or
\* submission2_id (its query returns them, and the request then answers 200
\* with one entry for each), and every entry names the other submission of
\* the pair, never s, with the student of that other submission.
C22_LookupReturnsMatchesOfSubmission ==
    [][/\ (lookup.status # 1 /\ lookup'.status = 1) =>
             lookup'.rows = {m \in matches : \/ m.submission1_id = lookup'.submission_id
                                              \/ m.submission2_id = lookup'.submission_id}
       /\ (lookup.status = 1 /\ lookup' # lookup) =>
             /\ lookup'.status = 200
             /\ {e.match : e \in lookup'.matches} = lookup.rows
             /\ \A e \in lookup'.matches :
                   /\ e.other_submission_id # lookup.submission_id
                   /\ e.other_submission_id \in
                         {e.match.submission1_id, e.match.submission2_id}
                   /\ e.other_student = student_id(e.other_submission_id)]_vars

\* ------------------------------------------------------------- API gateway

\* The longest request path, in segments:
\* /api/plagiarism/internal/assignments/1/plagiarism-check has six.
MaxSegments == 6

\* The segments of the request paths.  A path is the sequence of its segments;
\* the tests '"/x" in path' of the gateway hold when a segment after the first
\* of path starts with x, here when it is x.
Segments ==
    {"api", "assignments", "plagiarism", "internal", "1", "plagiarism-check",
     "submissions"}

RECURSIVE SeqsUpTo(_)
SeqsUpTo(n) ==
    IF n = 0 THEN {<<>>}
    ELSE LET shorter == SeqsUpTo(n - 1)
         IN shorter \cup {Append(q, x) : q \in shorter, x \in Segments}

\* The requests from outside: every path under /api.
RequestPaths == {<<"api">> \o q : q \in SeqsUpTo(MaxSegments - 1)}

Methods == {"GET", "POST"}

\* "/seg" in path
InPath(seg, path) == \E i \in 2..Len(path) : path[i] = seg

\* forward_request(service, path, request): the request goes to the service
\* with its method unchanged.
forward_request(service, path) == [service |-> service, target |-> path]

\* No route of the gateway matches: 404 from the gateway itself.
NotRouted == [service |-> "", target |-> <<>>]

\* assignment_routes: /api/assignments/{path:path}
assignment_routes(path) ==
    IF InPath("submissions", path)
    THEN forward_request("submission", <<"submissions", "assignments">> \o path)
    ELSE IF InPath("peer-review", path)
    THEN forward_request("peer-review", <<"peer-reviews">> \o path)
    ELSE IF InPath("plagiarism-check", path) \/ InPath("plagiarism-report", path)
    THEN forward_request("plagiarism", path)
    ELSE forward_request("assignment", <<"assignments">> \o path)

\* plagiarism_routes: /api/plagiarism/{path:path}
plagiarism_routes(path) == forward_request("plagiarism", path)

\* submission_routes: /api/submissions/{path:path}
submission_routes(path) == forward_request("submission", <<"submissions">> \o path)

\* The routes of the gateway, for the paths of the model.
Route(path) ==
    LET rest == SubSeq(path, 3, Len(path))
    IN IF Len(path) < 2 \/ path[1] # "api" THEN NotRouted
       ELSE IF path[2] = "assignments"
       THEN IF Len(path) = 2 THEN forward_request("assignment", <<"assignments">>)
            ELSE assignment_routes(rest)
       ELSE IF Len(path) = 2 THEN NotRouted
       ELSE IF path[2] = "plagiarism" THEN plagiarism_routes(rest)
       ELSE IF path[2] = "submissions" THEN submission_routes(rest)
       ELSE NotRouted

\* The endpoint of the plagiarism service that a request reaches: the router
\* has no prefix.
Endpoint(method, target) ==
    IF method = "POST" /\ Len(target) = 4 /\ target[1] = "internal"
       /\ target[2] = "assignments" /\ target[4] = "plagiarism-check"
    THEN "trigger_plagiarism_check_internal"
    ELSE IF method = "POST" /\ Len(target) = 3 /\ target[1] = "assignments"
            /\ target[3] = "plagiarism-check"
    THEN "trigger_plagiarism_check"
    ELSE "none"

\* Nothing else goes on: no run, no request, no submission under way.
IdleSystem ==
    /\ content = [f \in FileNames \cup OtherFileNames |-> Doc("txt", "ok", FileText(f))]
    /\ subs = {10, 26, 50, 51}
    /\ spc = [s \in SubIds |-> IF s \in subs THEN "filed" ELSE "new"]
    /\ matches = {}
    /\ pc = [r \in Runs |-> "idle"]
    /\ ra = [r \in Runs |-> 0]
    /\ readSubs = [r \in Runs |-> {}]
    /\ submission_data = [r \in Runs |-> <<>>]
    /\ results = [r \in Runs |-> {}]
    /\ targets = [r \in Runs |-> {}]
    /\ del = [r \in Runs |-> {}]
    /\ upstreamDown = [r \in Runs |-> FALSE]
    /\ supersededBy = [r \in Runs |-> 0]
    /\ resp = [r \in Runs |-> 0]
    /\ call = NoCall
    /\ report = NoReport
    /\ lookup = NoLookup
    /\ triggered = [s \in SubIds |-> 0]
    /\ enabled = [a \in Assignments |-> TRUE]

\* A request from outside is at the gateway.
InitGateway ==
    /\ gw \in [method : Methods, path : RequestPaths, forwarded : {"pending"}]
    /\ content = [f \in FileNames \cup OtherFileNames |-> Doc("txt", "ok", FileText(f))]
    /\ subs = {10, 26, 50, 51}
    /\ spc = [s \in SubIds |-> IF s \in subs THEN "filed" ELSE "new"]
    /\ matches = {}
    /\ pc = [r \in Runs |-> "idle"]
    /\ ra = [r \in Runs |-> 0]
    /\ readSubs = [r \in Runs |-> {}]
    /\ submission_data = [r \in Runs |-> <<>>]
    /\ results = [r \in Runs |-> {}]
    /\ targets = [r \in Runs |-> {}]
    /\ del = [r \in Runs |-> {}]
    /\ upstreamDown = [r \in Runs |-> FALSE]
    /\ supersededBy = [r \in Runs |-> 0]
    /\ resp = [r \in Runs |-> 0]
    /\ call = NoCall
    /\ report = NoReport
    /\ lookup = NoLookup
    /\ norm = NoNorm
    /\ pdf = NoPdf
    /\ triggered = [s \in SubIds |-> 0]
    /\ enabled = [a \in Assignments |-> TRUE]

\* The gateway routes the request and the service it is forwarded to
\* dispatches it.
Forward ==
    /\ gw.forwarded = "pending"
    /\ LET to == Route(gw.path)
       IN gw' = [method |-> gw.method, path |-> gw.path, forwarded |-> "done",
                 service |-> to.service, target |-> to.target,
                 endpoint |-> IF to.service = "plagiarism"
                              THEN Endpoint(gw.method, to.target) ELSE "none"]
    /\ UNCHANGED <<subs, spc, matches, runVars, content, resp, call, report,
                   lookup, norm, pdf, submitVars>>

NextGateway == Forward

SpecGateway == InitGateway /\ [][NextGateway]_vars

\* C23: the internal trigger endpoint is not exposed: no request the gateway
\* accepts is forwarded to trigger_plagiarism_check_internal.
C23_InternalTriggerNotExposed ==
    gw.forwarded = "done" => gw.endpoint # "trigger_plagiarism_check_internal"

\* The entries of submission_data that stand for the submission with id
\* string id and have at least one file.
WithFiles(data, id) == {i \in 1..Len(data) : data[i][1] = id /\ data[i][3] # <<>>}

\* C24: a submission with zero files is skipped in every pair: a submission
\* that has no file when the run loads the submissions gets no entry in
\* submission_data, and both submissions of every result of the run, and of
\* every row it inserts, are entries with at least one file.
C24_NoFilesNeverCompared ==
    [][\A r \in Runs :
          /\ (pc[r] = "idle" /\ pc'[r] = "prepared") =>
                \A s \in readSubs'[r] :
                   Files(s) = <<>> =>
                      \A i \in 1..Len(submission_data'[r]) :
                         submission_data'[r][i][1] # IdStr(s)
          /\ \A i \in 1..Len(submission_data'[r]) : submission_data'[r][i][3] # <<>>
          /\ \A res \in results'[r] :
                /\ WithFiles(submission_data[r], res[1]) # {}
                /\ WithFiles(submission_data[r], res[2]) # {}
          /\ Commits(r) =>
                \A m \in StoredNext(ra[r]) :
                   m.run = r =>
                      /\ WithFiles(submission_data[r], IdStr(m.submission1_id)) # {}
                      /\ WithFiles(submission_data[r], IdStr(m.submission2_id)) # {}]_vars

\* A run has compared submissions after it read a submission without any
\* file, which has no entry in its submission_data.
C24_Witness ==
    \E r \in Runs :
       /\ pc[r] = "deleted"
       /\ results[r] # {}
       /\ \E s \in readSubs[r] :
             /\ Files(s) = <<>>
             /\ \A i \in 1..Len(submission_data[r]) : submission_data[r][i][1] # IdStr(s)

\* ---------------------------------------------------------------------------
\* preprocess_text and extract_text_from_pdf on texts spelled out character by
\* character.

MaxText == 5

MaxPages == 4

\* A lower-case letter, an upper-case letter, a digit, three kinds of
\* whitespace and a punctuation mark.
Alphabet == {"a", "A", "1", " ", "\t", "!"}

Whitespace == {" ", "\t", "\n"}

\* The sequences over S of length n at most.
SeqsOver(S, n) == UNION {[1..k -> S] : k \in 0..n}

Texts == SeqsOver(Alphabet, MaxText)

\* No result yet.
NotReturned == <<"?">>

\* str.lower()
Lower(text) == [i \in 1..Len(text) |-> IF text[i] = "A" THEN "a" ELSE text[i]]

RECURSIVE CollapseWhitespace(_)
\* re.sub(r'\s+', ' ', text): every maximal run of whitespace becomes one space.
CollapseWhitespace(text) ==
    IF text = <<>> THEN <<>>
    ELSE IF Head(text) \in Whitespace
         THEN IF Len(text) > 1 /\ text[2] \in Whitespace
              THEN CollapseWhitespace(Tail(text))
              ELSE <<" ">> \o CollapseWhitespace(Tail(text))
         ELSE <<Head(text)>> \o CollapseWhitespace(Tail(text))

KeepChar(c) == c \in {"a", "1"} \cup Whitespace

\* re.sub(r'[^a-z0-9\s]', '', text)
RemoveSpecial(text) == SelectSeq(text, KeepChar)

RECURSIVE StripLeft(_)
StripLeft(text) ==
    IF text # <<>> /\ Head(text) \in Whitespace THEN StripLeft(Tail(text)) ELSE text

RECURSIVE StripRight(_)
StripRight(text) ==
    IF text # <<>> /\ text[Len(text)] \in Whitespace
    THEN StripRight(SubSeq(text, 1, Len(text) - 1)) ELSE text

\* str.strip()
Strip(text) == StripRight(StripLeft(text))

preprocess_text(text) == Strip(RemoveSpecial(CollapseWhitespace(Lower(text))))

InitNormalize ==
    /\ norm \in [text : Texts, result : {NotReturned}]
    /\ IdleSystem
    /\ gw = NoRequest
    /\ pdf = NoPdf

\* A call of preprocess_text returns.
Normalize ==
    /\ norm.result = NotReturned
    /\ norm' = [norm EXCEPT !.result = preprocess_text(norm.text)]
    /\ UNCHANGED <<subs, spc, matches, runVars, content, resp, call, report,
                   lookup, gw, pdf, submitVars>>

NextNormalize == Normalize

SpecNormalize == InitNormalize /\ [][NextNormalize]_vars

\* C26: the result of preprocess_text contains only characters of [a-z0-9 ]
\* and no run of two or more spaces.
C26_NormalizedAlphabetAndSpaces ==
    norm.result # NotReturned =>
       /\ \A i \in 1..Len(norm.result) : norm.result[i] \in {"a", "1", " "}
       /\ \A i \in 1..(Len(norm.result) - 1) :
             ~(norm.result[i] = " " /\ norm.result[i + 1] = " ")

\* A page of a PDF document: page.extract_text() returns text or raises.
PageTexts == {<<"a">>, <<"b">>}

Pages == [ok : {TRUE}, text : PageTexts] \cup {[ok |-> FALSE, text |-> <<>>]}

Documents == SeqsOver(Pages, MaxPages)

RECURSIVE JoinPages(_)
\* text += page.extract_text() + "\n" for every page
JoinPages(pages) ==
    IF pages = <<>> THEN <<>>
    ELSE Head(pages).text \o <<"\n">> \o JoinPages(Tail(pages))

\* Lines 20-36: the loop over the pages is inside the try block, so an
\* exception of one page leaves the function with "".
extract_text_from_pdf(pages) ==
    IF \E i \in 1..Len(pages) : ~pages[i].ok THEN <<>> ELSE JoinPages(pages)

InitPdf ==
    /\ pdf \in [pages : Documents, result : {NotReturned}]
    /\ IdleSystem
    /\ gw = NoRequest
    /\ norm = NoNorm

\* A call of extract_text_from_pdf returns.
ExtractPdf ==
    /\ pdf.result = NotReturned
    /\ pdf' = [pdf EXCEPT !.result = extract_text_from_pdf(pdf.pages)]
    /\ UNCHANGED <<subs, spc, matches, runVars, content, resp, call, report,
                   lookup, gw, norm, submitVars>>

NextPdf == ExtractPdf

SpecPdf == InitPdf /\ [][NextPdf]_vars

ReadablePage(page) == page.ok

\* C25: when the extraction of a page fails, the page is skipped and the text
\* of every other page is returned, each followed by a newline.
C25_FailingPageSkipped ==
    pdf.result # NotReturned => pdf.result = JoinPages(SelectSeq(pdf.pages, ReadablePage))

\* ---------------------------------------------------------------------------
\* submit_assignment and the trigger it schedules.

\* Students X (assignment 1) and W (assignment 3) submit, X also resubmits;
\* each assignment has the plagiarism check enabled or not.
InitSubmit ==
    /\ enabled \in [Assignments -> BOOLEAN]
    /\ content = [f \in FileNames \cup OtherFileNames |-> Doc("txt", "ok", FileText(f))]
    /\ subs = {10, 26, 50}
    /\ spc = [s \in SubIds |-> IF s \in subs THEN "filed" ELSE "new"]
    /\ matches = {}
    /\ pc = [r \in Runs |-> "idle"]
    /\ ra = [r \in Runs |-> 0]
    /\ readSubs = [r \in Runs |-> {}]
    /\ submission_data = [r \in Runs |-> <<>>]
    /\ results = [r \in Runs |-> {}]
    /\ targets = [r \in Runs |-> {}]
    /\ del = [r \in Runs |-> {}]
    /\ upstreamDown = [r \in Runs |-> FALSE]
    /\ supersededBy = [r \in Runs |-> 0]
    /\ resp = [r \in Runs |-> 0]
    /\ call = NoCall
    /\ report = NoReport
    /\ lookup = NoLookup
    /\ gw = NoRequest
    /\ norm = NoNorm
    /\ pdf = NoPdf
    /\ triggered = [s \in SubIds |-> 0]

NextSubmit ==
    \/ \E s \in SubIds : SubmitCheck(s)
    \/ \E s \in SubIds : SubmitCreate(s)
    \/ \E s \in SubIds : SubmitFiles(s)
    \/ \E s \in SubIds : SubmitResponseFails(s)
    \/ \E s \in SubIds : SubmitRejectFile(s)
    \/ \E s \in SubIds : SubmitAbort(s)

SpecSubmit == InitSubmit /\ [][NextSubmit]_vars

\* The request that creates submission s is answered with the submission.
Accepted(s) == spc[s] = "created" /\ spc'[s] = "filed"

\* C27: a trigger is scheduled only for an assignment whose
\* enable_plagiarism_check is true, and then every accepted submission
\* schedules exactly one, in the step after which the submission and its files
\* are committed; no other step of submit_assignment schedules one.
C27_TriggerOnlyIfEnabled ==
    [][\A s \in SubIds :
          /\ triggered'[s] # triggered[s] =>
                /\ enabled[assignment_id(s)]
                /\ Accepted(s)
                /\ s \in subs'
                /\ triggered[s] = 0 /\ triggered'[s] = 1
          /\ (Accepted(s) /\ enabled[assignment_id(s)]) => triggered'[s] = 1
          /\ ~enabled[assignment_id(s)] => triggered'[s] = 0]_vars

\* A submission of an assignment with the check enabled has scheduled its
\* trigger, and a submission of an assignment with the check disabled has been
\* accepted without one.
C27_Witness ==
    /\ \E s \in SubIds : enabled[assignment_id(s)] /\ spc[s] = "filed" /\ triggered[s] = 1
    /\ \E s \in SubIds \ {10, 26, 50} :
          ~enabled[assignment_id(s)] /\ spc[s] = "filed" /\ triggered[s] = 0

\* ---------------------------------------------------------------------------
\* Recomputes of an assignment with few submissions.

\* Assignment 1 has any of the submissions of X, Y and Z, each with its files
\* committed or still without files; the matches are those of a recompute of
\* the submissions with files (run 0).  Assignment 3 has its two submissions.
InitFew ==
    /\ content = [f \in FileNames \cup OtherFileNames |-> Doc("txt", "ok", FileText(f))]
    /\ \E S \in SUBSET {9, 10, 26} : subs = S \cup {50, 51}
    /\ \E F \in SUBSET (subs \ {50, 51}) :
          spc = [s \in SubIds |-> IF s \in F \cup {50, 51} THEN "filed"
                                  ELSE IF s \in subs THEN "created" ELSE "new"]
    /\ matches = UNION {OutputOf({s \in subs : assignment_id(s) = a}, a, 0) :
                           a \in Assignments}
    /\ pc = [r \in Runs |-> "idle"]
    /\ ra = [r \in Runs |-> 1]
    /\ readSubs = [r \in Runs |-> {}]
    /\ submission_data = [r \in Runs |-> <<>>]
    /\ results = [r \in Runs |-> {}]
    /\ targets = [r \in Runs |-> {}]
    /\ del = [r \in Runs |-> {}]
    /\ upstreamDown = [r \in Runs |-> FALSE]
    /\ supersededBy = [r \in Runs |-> 0]
    /\ resp = [r \in Runs |-> 202]
    /\ call = NoCall
    /\ report = NoReport
    /\ lookup = NoLookup
    /\ gw = NoRequest
    /\ norm = NoNorm
    /\ pdf = NoPdf
    /\ triggered = [s \in SubIds |-> 0]
    /\ enabled = [a \in Assignments |-> TRUE]

NextFew ==
    \/ \E s \in SubIds : SubmitFiles(s)
    \/ \E s \in SubIds : SubmitRejectFile(s)
    \/ \E r \in Runs, a \in Assignments, up \in BOOLEAN : LoadSubmissions(r, a, up)
    \/ \E r \in Runs, a \in Assignments : LoadFails(r, a)
    \/ \E r \in Runs, up \in BOOLEAN : CompareAndDelete(r, up)
    \/ \E r \in Runs : DeleteResume(r)
    \/ \E r \in Runs : Commit(r)
    \/ \E r \in Runs : PersistenceFails(r)

SpecFew == InitFew /\ [][NextFew]_vars

\* The submissions of assignment a, and those of them that have a file.
SubmissionsOf(a) == {s \in subs : assignment_id(s) = a}

SubmissionsWithFiles(a) == {s \in SubmissionsOf(a) : Files(s) # <<>>}

\* C28: a run that finds fewer than two submissions of its assignment, or
\* fewer than two with a file that exists on disk, returns: it deletes nothing
\* and inserts nothing, then or later, and the stored matches are as they were.
C28_TooFewLeavesMatches ==
    [][\A r \in Runs :
          /\ (pc[r] = "idle" /\ pc'[r] \in {"prepared", "returned"}) =>
                /\ (\/ Cardinality(SubmissionsOf(ra'[r])) < 2
                    \/ Cardinality(SubmissionsWithFiles(ra'[r])) < 2)
                      => pc'[r] = "returned"
                /\ pc'[r] = "prepared" => Len(submission_data'[r]) >= 2
                /\ pc'[r] = "returned" => matches' = matches /\ del'[r] = {}
          /\ pc[r] = "returned" =>
                /\ pc'[r] = "returned"
                /\ del'[r] = {}
                /\ {m \in matches' : m.run = r} = {}]_vars

\* A run has returned from an assignment with the submissions S, the
\* assignment having stored matches or not.
ReturnedWith(r, S, stored) ==
    /\ pc[r] = "returned"
    /\ SubmissionsOf(ra[r]) = S
    /\ (Stored(ra[r]) # {}) = stored

\* A run has returned from an assignment with one submission.
ReturnedFromOne == \E r \in Runs : ReturnedWith(r, {10}, FALSE)

\* A run has returned from an assignment with two submissions whose files were
\* not all found, and the match stored for them is still there.
C28_Witness == \E r \in Runs : ReturnedWith(r, {10, 26}, TRUE)

\* C29: every stored match references two submissions that exist and that
\* belong to the assignment of the match, whatever resubmission or deletion
\* interleaves with the recomputes.
C29_MatchesReferenceSubmissions ==
    \A m \in matches :
       /\ m.submission1_id \in subs
       /\ m.submission2_id \in subs
       /\ assignment_id(m.submission1_id) = m.assignment_id
       /\ assignment_id(m.submission2_id) = m.assignment_id

\* A recompute that has compared the submissions it read is about to insert
\* its matches, one of them for a submission a resubmission has deleted since.
C29_Witness ==
    \E r \in Runs :
       /\ pc[r] = "deleted"
       /\ readSubs[r] \ subs # {}
       /\ \E m \in NewMatches(r) : ~SubmissionsExist(m)

\* The stored matches of assignment a with a score in the set range.
Scoring(a, range) == {m \in Stored(a) : m.similarity_score \in range}

\* C30: in every report the two severity counts add up to the number of stored
\* matches scoring at least 50, so no match is counted twice and none below 50
\* is counted, and the sum is at most total_comparisons; a match scoring
\* exactly 70 is counted as medium and not as high, although a report with the
\* default threshold 70 lists it.
C30_SeverityCountsDisjoint ==
    [][\A a \in Assignments, t \in Thresholds :
          Reports(a, t) =>
             LET response == report'.response
                 high == response.high_similarity_count
                 medium == response.medium_similarity_count
             IN /\ high + medium = Cardinality(Scoring(a, 5000..10000))
                /\ high + medium <= response.total_comparisons
                /\ high + Cardinality(Scoring(a, 0..4999)) + medium
                      = response.total_comparisons
                /\ high <= Cardinality(Scoring(a, 7001..10000))
                /\ medium >= Cardinality(Scoring(a, {7000}))
                /\ t = 7000 =>
                      \A m \in Scoring(a, {7000}) :
                         \E e \in response.matches :
                            /\ e.submission1_id = m.submission1_id
                            /\ e.submission2_id = m.submission2_id
                            /\ e.similarity_score = 7000]_vars

\* A report with the default threshold lists a match scoring exactly 70.00 and
\* one scoring more, and counts one high and two medium matches out of three.
C30_Witness ==
    /\ report.status = 200
    /\ report.threshold = 7000
    /\ \E e \in report.response.matches : e.similarity_score = 7000
    /\ \E e \in report.response.matches : e.similarity_score > 7000
    /\ report.response.high_similarity_count = 1
    /\ report.response.medium_similarity_count = 2
    /\ report.response.total_comparisons = 3
====
